---- MODULE Spec2Model ----
(***************************************************************************)
(* The rate-limited caching fetch layer of the investment platform:        *)
(*   backend/analytics.py  _get_cached_or_fetch      (retrying coordinator) *)
(*   backend/main.py       _get_cached_or_fetch_api  (quote-path coordinator)*)
(* Callers are threads; each call runs the function's statements one lock   *)
(* region, sleep or upstream call at a time.                                *)
(*                                                                         *)
(* The two functions share no state (each module has its own dicts and      *)
(* locks), so a run exercises one of them, chosen at the start (mod).       *)
(*                                                                         *)
(* Time passes in ticks: one second in analytics.py, whose durations are    *)
(* whole seconds, and half a second in main.py (its MIN_REQUEST_DELAY).     *)
(* A stored time.time() value s is kept as its age time.time() - s, which   *)
(* is the only way the code ever reads it; an age stops growing at the      *)
(* largest duration it is compared with.  A sleep is kept as the time it    *)
(* still has to run.                                                        *)
(***************************************************************************)
EXTENDS Integers, Naturals, Sequences, FiniteSets, TLC

VARIABLES mod, cache, last_request_time, cache_lock, request_lock, th, calls,
          op, result

vars == <<mod, cache, last_request_time, cache_lock, request_lock, th, calls,
          op, result>>

(* the operation in progress above the fetch layer, and what it returned *)
engine == <<op, result>>

----------------------------------------------------------------------------
(* Bounds *)

MaxCalls == 3
NumKeys == 2
NumValues == 2
MaxTTL == 2

(* Program constants, in ticks *)

MIN_REQUEST_DELAY == 2
MIN_REQUEST_DELAY_API == 1
max_retries == 3

Threads == {"t1", "t2"}
NoThread == "nobody"
Fns == {"analytics", "api"}
Keys == 1..NumKeys
Values == 1..NumValues
TTLs == 1..MaxTTL
NoData == 0

(* An error is known by the marker texts its message contains and by the   *)
(* attempt that raised it.                                                  *)
ErrorTexts == {{}, {"429"}, {"Too Many Requests"}}
NoError == [text |-> {}, attempt |-> -1]

----------------------------------------------------------------------------
(* Python dicts: functions whose domain is the set of keys present *)

EmptyDict == [x \in {} |-> 0]

(* dict.setdefault instead of assignment: an existing entry is kept *)
DictPutIfAbsent(d, k, v) ==
  IF k \in DOMAIN d THEN d
  ELSE [x \in (DOMAIN d) \cup {k} |-> IF x = k THEN v ELSE d[x]]

DictPut(d, k, v) == [x \in (DOMAIN d) \cup {k} |-> IF x = k THEN v ELSE d[x]]

Pow2(n) == IF n = 0 THEN 1 ELSE IF n = 1 THEN 2 ELSE IF n = 2 THEN 4 ELSE 8

MinDelay(fn) == IF fn = "analytics" THEN MIN_REQUEST_DELAY ELSE MIN_REQUEST_DELAY_API

Min(a, b) == IF a < b THEN a ELSE b

(* the expiry test one tick too strict, and one tick too lax *)
IsFreshOffByOne(c, k, ttl) == k \in DOMAIN c /\ c[k][2] + 1 < ttl

IsFreshInclusive(c, k, ttl) == k \in DOMAIN c /\ c[k][2] <= ttl

(* `cache_key in _cache and now - cached_time < cache_duration` *)
IsFresh(c, k, ttl) == k \in DOMAIN c /\ c[k][2] < ttl

(* only the status code looked for: `"429" in error_msg` *)
IsRateLimitedStatusOnly(text) == "429" \in text

(* `"429" in error_msg or "Too Many Requests" in error_msg` *)
IsRateLimited(text) == "429" \in text \/ "Too Many Requests" \in text

(* the same 5 seconds after every rate-limit failure *)
RateLimitBackoffFlat(attempt) == 5

(* `(attempt + 1) * 5` seconds *)
RateLimitBackoff(attempt) == (attempt + 1) * 5

(* `2 * attempt` written for `2 ** attempt` *)
ExpBackoffLinear(attempt) == 2 * attempt

(* `2 ** attempt` seconds *)
ExpBackoff(attempt) == Pow2(attempt)

(* a sleep one tick short of the remaining spacing *)
RemainingDelayShort(fn, elapsed) == MinDelay(fn) - elapsed - 1

(* the remaining spacing `MIN_REQUEST_DELAY - elapsed` *)
RemainingDelay(fn, elapsed) == MinDelay(fn) - elapsed

----------------------------------------------------------------------------
(* No operation of the layers above is in progress *)
NoOp == [name |-> "none", pc |-> "idle", holdings |-> <<>>, i |-> 0,
         got |-> FALSE, site |-> 0, n |-> 0]

NoResult == [kind |-> "none"]

(* Per-call locals.  seen, nfetch, fails and sleeps only record what the    *)
(* call did: what the cache check found, how often fetch_func was invoked   *)
(* and failed, and the backoff sleeps asked for, each as <<whether the      *)
(* error message carried a rate-limit marker, ticks>>.  ret and err are     *)
(* what the call handed back.                                               *)

IdleLocals ==
  [pc |-> "idle", cache_key |-> 1, cache_duration |-> 1,
   attempt |-> 0, data |-> NoData, last_error |-> NoError, sleep_left |-> 0,
   ret |-> NoData, err |-> NoError, nfetch |-> 0, fails |-> 0,
   sleeps |-> <<>>, seen |-> "none"]

(* the frame is gone once the call returns or raises *)
Returned(r, v) ==
  [IdleLocals EXCEPT !.pc = "done", !.ret = v, !.cache_key = r.cache_key,
     !.seen = r.seen, !.nfetch = r.nfetch, !.fails = r.fails]

Raised(r, e) ==
  [IdleLocals EXCEPT !.pc = "raised", !.err = e, !.cache_key = r.cache_key,
     !.seen = r.seen, !.nfetch = r.nfetch, !.fails = r.fails]

Active(t) == th[t].pc \notin {"idle", "done", "raised"}

Init ==
  /\ calls = 0
  /\ mod \in Fns
  /\ cache = EmptyDict
  /\ last_request_time = EmptyDict
  /\ cache_lock = NoThread
  /\ request_lock = NoThread
  /\ th = [t \in Threads |-> IdleLocals]
  /\ op = NoOp
  /\ result = NoResult

(* time.time() advances by one tick: every stored time is one tick older,  *)
(* every running sleep has one tick less to go                             *)
Tick ==
  /\ cache' = [k \in DOMAIN cache |->
                 <<cache[k][1], Min(cache[k][2] + 1, MaxTTL)>>]
  /\ last_request_time' = [k \in DOMAIN last_request_time |->
                 Min(last_request_time[k] + 1, MinDelay(mod))]
  /\ th' = [t \in Threads |->
              [th[t] EXCEPT !.sleep_left = IF @ > 0 THEN @ - 1 ELSE 0]]
  /\ UNCHANGED <<engine, mod, cache_lock, request_lock, calls>>

(* Threads and keys are interchangeable: the first call of a run is taken   *)
(* to be the first thread's, on the first key.                             *)
FirstCall(t, k) == calls = 0 => (t = "t1" /\ k = 1)

(* A caller enters the function; blocks on `with _cache_lock` *)
Call(t, k, ttl) ==
  /\ ~Active(t)
  /\ calls < MaxCalls
  /\ FirstCall(t, k)
  /\ calls' = calls + 1
  /\ th' = [th EXCEPT ![t] =
              [IdleLocals EXCEPT !.pc = "lock_check",
                 !.cache_key = k, !.cache_duration = ttl]]
  /\ UNCHANGED <<engine, mod, cache, last_request_time, cache_lock, request_lock>>

----------------------------------------------------------------------------
(* Steps shared by the two functions (their first 17 lines are the same     *)
(* statements over each module's own globals).                              *)

(* the cache key built without the ticker: every call uses the same key *)
KeyWithoutTicker(t) == 1

Key(t) == th[t].cache_key

At(t, fn, label) == th[t].pc = label /\ mod = fn

(* the cache lock acquired without `with` and never released *)
KeepCacheLock(t) == t

(* leaving a `with _cache_lock:` / `with _request_lock:` block *)
ReleaseCacheLock(t) == NoThread

(* the request lock acquired without `with` and never released *)
KeepRequestLock(t) == t

ReleaseRequestLock(t) == NoThread

(* no fallback: the stale entry is never looked at *)
NoStale(c, k) == FALSE

(* `if cache_key in _cache:` of the fallback, which ignores the entry's age *)
HasStale(c, k) == k \in DOMAIN c

(* `with _cache_lock:` entered *)
EnterCacheLock(t, fn, from, to) ==
  /\ At(t, fn, from)
  /\ cache_lock = NoThread
  /\ cache_lock' = t
  /\ th' = [th EXCEPT ![t].pc = to]
  /\ UNCHANGED <<engine, mod, cache, last_request_time, request_lock, calls>>

(* what the caller found, in the words of the specification *)
Seen(c, k, ttl) ==
  IF k \notin DOMAIN c THEN "absent"
  ELSE IF c[k][2] < ttl THEN "fresh" ELSE "expired"

(* `now = time.time()`; return cached_data when present and not expired *)
CacheCheck(t, fn) ==
  /\ At(t, fn, "check")
  /\ cache_lock = t
  /\ LET c == cache
         k == Key(t)
         ttl == th[t].cache_duration
         noted == [th[t] EXCEPT !.seen = Seen(c, k, ttl),
                                !.cache_duration = IdleLocals.cache_duration]
     IN th' = [th EXCEPT ![t] =
                 IF IsFresh(c, k, ttl)
                   THEN Returned(noted, c[k][1])
                   ELSE [noted EXCEPT !.pc = "lock_rate"]]
  /\ cache_lock' = ReleaseCacheLock(t)
  /\ UNCHANGED <<engine, mod, cache, last_request_time, request_lock, calls>>

(* `with _request_lock:` entered *)
EnterRequestLock(t, fn) ==
  /\ At(t, fn, "lock_rate")
  /\ request_lock = NoThread
  /\ request_lock' = t
  /\ th' = [th EXCEPT ![t].pc = "rate"]
  /\ UNCHANGED <<engine, mod, cache, last_request_time, cache_lock, calls>>

(* `elapsed = time.time() - _last_request_time[cache_key]`; sleep if short *)
RateCheck(t, fn) ==
  /\ At(t, fn, "rate")
  /\ LET lrt == last_request_time
         k == Key(t)
     IN IF k \in DOMAIN lrt /\ lrt[k] < MinDelay(fn)
          THEN th' = [th EXCEPT ![t].pc = "rate_sleep",
                        ![t].sleep_left = RemainingDelay(fn, lrt[k])]
          ELSE th' = [th EXCEPT ![t].pc = "rate_stamp"]
  /\ UNCHANGED <<engine, mod, cache, last_request_time, cache_lock, request_lock, calls>>

(* time.sleep returns no earlier than asked *)
RateWake(t, fn) ==
  /\ At(t, fn, "rate_sleep")
  /\ th[t].sleep_left = 0
  /\ th' = [th EXCEPT ![t].pc = "rate_stamp"]
  /\ UNCHANGED <<engine, mod, cache, last_request_time, cache_lock, request_lock, calls>>

(* `_last_request_time[cache_key] = time.time()`; leave the with block *)
RateStamp(t, fn, to) ==
  /\ At(t, fn, "rate_stamp")
  /\ last_request_time' = DictPut(last_request_time, Key(t), 0)
  /\ request_lock' = ReleaseRequestLock(t)
  /\ th' = [th EXCEPT ![t].pc = to]
  /\ UNCHANGED <<engine, mod, cache, cache_lock, calls>>

(* `_cache[cache_key] = (data, time.time())`; `return data` *)
CachePut(t, fn) ==
  /\ At(t, fn, "put")
  /\ cache_lock = t
  /\ cache' = DictPut(cache, Key(t), <<th[t].data, 0>>)
  /\ cache_lock' = ReleaseCacheLock(t)
  /\ th' = [th EXCEPT ![t] = Returned(@, @.data)]
  /\ UNCHANGED <<engine, mod, last_request_time, request_lock, calls>>

(* `if cache_key in _cache: return cached_data`, else raise *)
StaleOrRaise(t, fn) ==
  /\ At(t, fn, "stale")
  /\ cache_lock = t
  /\ LET c == cache
         k == Key(t)
     IN th' = [th EXCEPT ![t] =
                 IF HasStale(c, k)
                   THEN Returned(@, c[k][1])
                   ELSE Raised(@, @.last_error)]
  /\ cache_lock' = ReleaseCacheLock(t)
  /\ UNCHANGED <<engine, mod, cache, last_request_time, request_lock, calls>>

(* a per-key in-flight marker in front of `fetch_func()` *)
SingleFlight(t) ==
  \A u \in Threads \ {t} :
    ~(th[u].pc = "fetching" /\ th[u].cache_key = th[t].cache_key)

(* there is no admission test in front of `fetch_func()` *)
FetchAdmitted(t) == TRUE

(* the first error kept instead of the last *)
LastErrorFirst(old, text, a) ==
  IF old.attempt = -1 THEN [text |-> text, attempt |-> a] ELSE old

(* `last_error = e` / `except Exception as e` *)
LastError(old, text, a) == [text |-> text, attempt |-> a]

(* Values are interchangeable: while the state holds none, the upstream     *)
(* source's answer is taken to be the first value.                          *)
FirstValue(v) ==
  (cache = EmptyDict /\ \A u \in Threads : th[u].data = NoData /\ th[u].ret = NoData)
    => v = 1

----------------------------------------------------------------------------
(* analytics.py: _get_cached_or_fetch *)

AcquireCacheLock(t) == EnterCacheLock(t, "analytics", "lock_check", "check")

CheckCache(t) == CacheCheck(t, "analytics")

AcquireRequestLock(t) == EnterRequestLock(t, "analytics")

CheckSpacing(t) == RateCheck(t, "analytics")

SpacingSleepEnds(t) == RateWake(t, "analytics")

RecordRequestTime(t) == RateStamp(t, "analytics", "loop")

(* `for attempt in range(max_retries): data = fetch_func()` begins, or the  *)
(* loop is exhausted                                                        *)
NextAttempt(t) ==
  /\ At(t, "analytics", "loop")
  /\ IF th[t].attempt < max_retries
       THEN /\ FetchAdmitted(t)
            /\ th' = [th EXCEPT ![t].pc = "fetching",
                                ![t].nfetch = @ + 1]
       ELSE th' = [th EXCEPT ![t].pc = "lock_stale"]
  /\ UNCHANGED <<engine, mod, cache, last_request_time, cache_lock, request_lock, calls>>

(* fetch_func() returns data *)
FetchReturns(t, v) ==
  /\ At(t, "analytics", "fetching")
  /\ FirstValue(v)
  /\ th' = [th EXCEPT ![t].pc = "lock_put", ![t].data = v]
  /\ UNCHANGED <<engine, mod, cache, last_request_time, cache_lock, request_lock, calls>>

(* fetch_func() raises: the except clause and its backoff *)
FetchRaises(t, text) ==
  /\ At(t, "analytics", "fetching")
  /\ LET a == th[t].attempt
         failed == [th[t] EXCEPT !.last_error = LastError(@, text, a),
                      !.fails = @ + 1]
     IN th' = [th EXCEPT ![t] =
                 IF IsRateLimited(text)
                   THEN [failed EXCEPT !.pc = "backoff",
                           !.sleep_left = RateLimitBackoff(a),
                           !.sleeps = Append(@, <<text # {}, RateLimitBackoff(a)>>)]
                 ELSE IF a < max_retries - 1
                   THEN [failed EXCEPT !.pc = "backoff",
                           !.sleep_left = ExpBackoff(a),
                           !.sleeps = Append(@, <<text # {}, ExpBackoff(a)>>)]
                 ELSE [failed EXCEPT !.pc = "loop", !.attempt = a + 1]]
  /\ UNCHANGED <<engine, mod, cache, last_request_time, cache_lock, request_lock, calls>>

(* time.sleep(backoff_time) returns; next loop iteration *)
BackoffEnds(t) ==
  /\ At(t, "analytics", "backoff")
  /\ th[t].sleep_left = 0
  /\ th' = [th EXCEPT ![t].pc = "loop", ![t].attempt = @ + 1]
  /\ UNCHANGED <<engine, mod, cache, last_request_time, cache_lock, request_lock, calls>>

AcquireCacheLockForPut(t) == EnterCacheLock(t, "analytics", "lock_put", "put")

PutCache(t) == CachePut(t, "analytics")

AcquireCacheLockForStale(t) ==
  EnterCacheLock(t, "analytics", "lock_stale", "stale")

StaleFallback(t) == StaleOrRaise(t, "analytics")

----------------------------------------------------------------------------
(* main.py: _get_cached_or_fetch_api *)

ApiAcquireCacheLock(t) == EnterCacheLock(t, "api", "lock_check", "check")

ApiCheckCache(t) == CacheCheck(t, "api")

ApiAcquireRequestLock(t) == EnterRequestLock(t, "api")

ApiCheckSpacing(t) == RateCheck(t, "api")

ApiSpacingSleepEnds(t) == RateWake(t, "api")

ApiRecordRequestTime(t) == RateStamp(t, "api", "call")

(* `data = fetch_func()` begins *)
ApiFetchStarts(t) ==
  /\ At(t, "api", "call")
  /\ FetchAdmitted(t)
  /\ th' = [th EXCEPT ![t].pc = "fetching", ![t].nfetch = @ + 1]
  /\ UNCHANGED <<engine, mod, cache, last_request_time, cache_lock, request_lock, calls>>

ApiFetchReturns(t, v) ==
  /\ At(t, "api", "fetching")
  /\ FirstValue(v)
  /\ th' = [th EXCEPT ![t].pc = "lock_put", ![t].data = v]
  /\ UNCHANGED <<engine, mod, cache, last_request_time, cache_lock, request_lock, calls>>

(* the failed fetch tried again, as the analytics coordinator does *)
ApiFetchRaisesRetried(t, text) ==
  /\ At(t, "api", "fetching")
  /\ th' = [th EXCEPT ![t].pc = IF th[t].nfetch < max_retries
                                  THEN "call" ELSE "lock_stale",
                      ![t].last_error = LastError(@, text, 0),
                      ![t].fails = @ + 1]
  /\ UNCHANGED <<engine, mod, cache, last_request_time, cache_lock, request_lock, calls>>

(* `except Exception as e:` goes straight to the stale check *)
ApiFetchRaises(t, text) ==
  /\ At(t, "api", "fetching")
  /\ th' = [th EXCEPT ![t].pc = "lock_stale",
                      ![t].last_error = LastError(@, text, 0),
                      ![t].fails = @ + 1]
  /\ UNCHANGED <<engine, mod, cache, last_request_time, cache_lock, request_lock, calls>>

ApiAcquireCacheLockForPut(t) == EnterCacheLock(t, "api", "lock_put", "put")

ApiPutCache(t) == CachePut(t, "api")

ApiAcquireCacheLockForStale(t) ==
  EnterCacheLock(t, "api", "lock_stale", "stale")

ApiStaleFallback(t) == StaleOrRaise(t, "api")

----------------------------------------------------------------------------

Next ==
  \/ Tick
  \/ \E t \in Threads, k \in Keys, ttl \in TTLs : Call(t, k, ttl)
  \/ \E t \in Threads : AcquireCacheLock(t)
  \/ \E t \in Threads : CheckCache(t)
  \/ \E t \in Threads : AcquireRequestLock(t)
  \/ \E t \in Threads : CheckSpacing(t)
  \/ \E t \in Threads : SpacingSleepEnds(t)
  \/ \E t \in Threads : RecordRequestTime(t)
  \/ \E t \in Threads : NextAttempt(t)
  \/ \E t \in Threads, v \in Values : FetchReturns(t, v)
  \/ \E t \in Threads, text \in ErrorTexts : FetchRaises(t, text)
  \/ \E t \in Threads : BackoffEnds(t)
  \/ \E t \in Threads : AcquireCacheLockForPut(t)
  \/ \E t \in Threads : PutCache(t)
  \/ \E t \in Threads : AcquireCacheLockForStale(t)
  \/ \E t \in Threads : StaleFallback(t)
  \/ \E t \in Threads : ApiAcquireCacheLock(t)
  \/ \E t \in Threads : ApiCheckCache(t)
  \/ \E t \in Threads : ApiAcquireRequestLock(t)
  \/ \E t \in Threads : ApiCheckSpacing(t)
  \/ \E t \in Threads : ApiSpacingSleepEnds(t)
  \/ \E t \in Threads : ApiRecordRequestTime(t)
  \/ \E t \in Threads : ApiFetchStarts(t)
  \/ \E t \in Threads, v \in Values : ApiFetchReturns(t, v)
  \/ \E t \in Threads, text \in ErrorTexts : ApiFetchRaises(t, text)
  \/ \E t \in Threads : ApiAcquireCacheLockForPut(t)
  \/ \E t \in Threads : ApiPutCache(t)
  \/ \E t \in Threads : ApiAcquireCacheLockForStale(t)
  \/ \E t \in Threads : ApiStaleFallback(t)

Spec == Init /\ [][Next]_vars

TypeOK ==
  /\ calls \in 0..MaxCalls
  /\ DOMAIN cache \subseteq Keys
  /\ cache_lock \in Threads \cup {NoThread}

----------------------------------------------------------------------------
(* Progress.  A thread that can take its next statement eventually takes    *)
(* it (the interpreter switches threads), a fetch_func() under way          *)
(* eventually returns or raises, and time passes.  Nothing obliges a        *)
(* caller to call.  Runs are followed up to LiveCalls calls.                *)

LiveCalls == 2

CallWithin(t, k, ttl) == calls < LiveCalls /\ Call(t, k, ttl)

(* the next statement of thread t's call, in either function *)
Step(t) ==
  \/ AcquireCacheLock(t)
  \/ CheckCache(t)
  \/ AcquireRequestLock(t)
  \/ CheckSpacing(t)
  \/ SpacingSleepEnds(t)
  \/ RecordRequestTime(t)
  \/ NextAttempt(t)
  \/ \E v \in Values : FetchReturns(t, v)
  \/ \E text \in ErrorTexts : FetchRaises(t, text)
  \/ BackoffEnds(t)
  \/ AcquireCacheLockForPut(t)
  \/ PutCache(t)
  \/ AcquireCacheLockForStale(t)
  \/ StaleFallback(t)
  \/ ApiAcquireCacheLock(t)
  \/ ApiCheckCache(t)
  \/ ApiAcquireRequestLock(t)
  \/ ApiCheckSpacing(t)
  \/ ApiSpacingSleepEnds(t)
  \/ ApiRecordRequestTime(t)
  \/ ApiFetchStarts(t)
  \/ \E v \in Values : ApiFetchReturns(t, v)
  \/ \E text \in ErrorTexts : ApiFetchRaises(t, text)
  \/ ApiAcquireCacheLockForPut(t)
  \/ ApiPutCache(t)
  \/ ApiAcquireCacheLockForStale(t)
  \/ ApiStaleFallback(t)

NextLive ==
  \/ Tick
  \/ \E t \in Threads, k \in Keys, ttl \in TTLs : CallWithin(t, k, ttl)
  \/ \E t \in Threads : Step(t)

SpecLive ==
  /\ Init
  /\ [][NextLive]_vars
  /\ WF_vars(Tick)
  /\ \A t \in Threads : WF_vars(Step(t))

----------------------------------------------------------------------------
(* The operations above the fetch layer and their accesses to the upstream  *)
(* market-data source (yf.Ticker(..).history / .info).  An operation works  *)
(* through its holdings one ticker at a time; for each it either calls the  *)
(* upstream source itself or calls its module's get-or-fetch function,      *)
(* whose fetch_func makes the upstream call.  calculate_portfolio_metrics   *)
(* and calculate_performance_benchmark end with one more access, for the    *)
(* market history.  Operations run one after the other on one thread.       *)

MaxOps == 2
MaxHoldings == 2

Caller == "t1"

Tickers == Keys

Operations ==
  {"calculate_portfolio_metrics", "calculate_correlation_matrix",
   "calculate_sector_allocation", "calculate_performance_benchmark",
   "calculate_technical_indicators", "add_holding", "get_stock_quote",
   "get_stock_history", "get_portfolio"}

(* operations on one ticker instead of a list of holdings *)
SingleTicker(name) ==
  name \in {"calculate_technical_indicators", "add_holding",
            "get_stock_quote", "get_stock_history"}

HoldingLists == UNION {[1..n -> Tickers] : n \in 0..MaxHoldings}

(* the source line of the access an operation makes for each ticker *)
LoopSite(name) ==
  CASE name = "calculate_portfolio_metrics" -> 111
    [] name = "calculate_correlation_matrix" -> 291
    [] name = "calculate_sector_allocation" -> 347
    [] name = "calculate_performance_benchmark" -> 400
    [] name = "calculate_technical_indicators" -> 486
    [] name = "add_holding" -> 272
    [] name = "get_stock_quote" -> 324
    [] name = "get_stock_history" -> 351
    [] name = "get_portfolio" -> 502

(* the source line of the access made after the loop, 0 when there is none *)
TailSite(name) ==
  CASE name = "calculate_portfolio_metrics" -> 231
    [] name = "calculate_performance_benchmark" -> 430
    [] OTHER -> 0

(* the accesses made through _get_cached_or_fetch / _get_cached_or_fetch_api *)
CoordinatorSites == {324, 347, 502}

SiteModule(site) == IF site = 347 THEN "analytics" ELSE "api"

(* f"stock_info_{ticker}", f"stock_quote_{ticker}", f"stock_price_{ticker}": *)
(* the two key families of main.py do not overlap                           *)
CacheKeyAt(site, ticker) == IF site = 502 THEN NumKeys + ticker ELSE ticker

Finished(o) == [NoOp EXCEPT !.n = o.n]

(* a request reaches an operation *)
StartOp(name, hs) ==
  /\ op.pc = "idle"
  /\ op.n < MaxOps
  /\ SingleTicker(name) => Len(hs) = 1
  /\ LoopSite(name) \in CoordinatorSites =>
       /\ mod = SiteModule(LoopSite(name))
       /\ calls + Len(hs) <= MaxCalls
  /\ op' = [name |-> name, pc |-> "loop", holdings |-> hs, i |-> 1,
            got |-> FALSE, site |-> LoopSite(name), n |-> op.n + 1]
  /\ UNCHANGED <<result, mod, cache, last_request_time, cache_lock,
                 request_lock, th, calls>>

(* `for holding in holdings:` is exhausted; `if not portfolio_returns:       *)
(* return ...` ends the operation before the market history is asked for    *)
LoopEnds ==
  /\ op.pc = "loop"
  /\ op.i > Len(op.holdings)
  /\ op' = IF TailSite(op.name) # 0 /\ op.got
             THEN [op EXCEPT !.pc = "tail", !.site = TailSite(op.name)]
             ELSE Finished(op)
  /\ UNCHANGED <<result, mod, cache, last_request_time, cache_lock,
                 request_lock, th, calls>>

(* `yf.Ticker(ticker).history(...)` / `.info` called by the operation itself *)
DirectCall ==
  /\ \/ op.pc = "loop" /\ op.i <= Len(op.holdings)
     \/ op.pc = "tail"
  /\ op.site \notin CoordinatorSites
  /\ op' = [op EXCEPT !.pc = "upstream"]
  /\ UNCHANGED <<result, mod, cache, last_request_time, cache_lock,
                 request_lock, th, calls>>

(* the upstream source answers with data, with an empty table, or fails;    *)
(* the except clause of the loop carries on with the next holding           *)
DirectReturns(outcome) ==
  /\ op.pc = "upstream"
  /\ op' = IF op.site = TailSite(op.name)
             THEN Finished(op)
             ELSE [op EXCEPT !.pc = "loop", !.i = @ + 1,
                             !.got = @ \/ outcome = "data"]
  /\ UNCHANGED <<result, mod, cache, last_request_time, cache_lock,
                 request_lock, th, calls>>

(* `_get_cached_or_fetch(cache_key, fetch_info, cache_duration=300)` and    *)
(* `_get_cached_or_fetch_api(cache_key, fetch_quote, cache_duration=120)`   *)
CoordinatedCall(ttl) ==
  /\ op.pc = "loop" /\ op.i <= Len(op.holdings)
  /\ op.site \in CoordinatorSites
  /\ th[Caller].pc = "idle"
  /\ calls < MaxCalls
  /\ calls' = calls + 1
  /\ th' = [th EXCEPT ![Caller] =
              [IdleLocals EXCEPT !.pc = "lock_check",
                 !.cache_key = CacheKeyAt(op.site, op.holdings[op.i]),
                 !.cache_duration = ttl]]
  /\ op' = [op EXCEPT !.pc = "coordinator"]
  /\ UNCHANGED <<result, mod, cache, last_request_time, cache_lock, request_lock>>

(* the get-or-fetch call returned or raised; `except Exception: continue`   *)
CoordinatedReturns ==
  /\ op.pc = "coordinator"
  /\ th[Caller].pc \in {"done", "raised"}
  /\ th' = [th EXCEPT ![Caller] = IdleLocals]
  /\ op' = [op EXCEPT !.pc = "loop", !.i = @ + 1,
                      !.got = @ \/ th[Caller].pc = "done"]
  /\ UNCHANGED <<result, mod, cache, last_request_time, cache_lock,
                 request_lock, calls>>

(* the steps of the get-or-fetch call in progress *)
CoordinatorStep ==
  \E t \in Threads :
    \/ AcquireCacheLock(t) \/ CheckCache(t) \/ AcquireRequestLock(t)
    \/ CheckSpacing(t) \/ SpacingSleepEnds(t) \/ RecordRequestTime(t)
    \/ NextAttempt(t) \/ BackoffEnds(t)
    \/ \E v \in Values : FetchReturns(t, v)
    \/ \E text \in ErrorTexts : FetchRaises(t, text)
    \/ AcquireCacheLockForPut(t) \/ PutCache(t)
    \/ AcquireCacheLockForStale(t) \/ StaleFallback(t)
    \/ ApiAcquireCacheLock(t) \/ ApiCheckCache(t) \/ ApiAcquireRequestLock(t)
    \/ ApiCheckSpacing(t) \/ ApiSpacingSleepEnds(t) \/ ApiRecordRequestTime(t)
    \/ ApiFetchStarts(t)
    \/ \E v \in Values : ApiFetchReturns(t, v)
    \/ \E text \in ErrorTexts : ApiFetchRaises(t, text)
    \/ ApiAcquireCacheLockForPut(t) \/ ApiPutCache(t)
    \/ ApiAcquireCacheLockForStale(t) \/ ApiStaleFallback(t)

NextOps ==
  \/ \E name \in Operations, hs \in HoldingLists : StartOp(name, hs)
  \/ LoopEnds
  \/ DirectCall
  \/ \E outcome \in {"data", "empty", "raises"} : DirectReturns(outcome)
  \/ \E ttl \in TTLs : CoordinatedCall(ttl)
  \/ CoordinatedReturns
  \/ CoordinatorStep
  \/ Tick

SpecOps == Init /\ [][NextOps]_vars

----------------------------------------------------------------------------
(* The metrics and indicator functions of analytics.py.  They touch none of *)
(* the fetch layer's state: a run calls one function on one input (op) and  *)
(* keeps what it returned or raised (result).                               *)

fetchLayer ==
  <<mod, cache, last_request_time, cache_lock, request_lock, th, calls>>

(* the fetch layer at rest *)
Quiet ==
  /\ calls = 0
  /\ mod = "analytics"
  /\ cache = EmptyDict
  /\ last_request_time = EmptyDict
  /\ cache_lock = NoThread
  /\ request_lock = NoThread
  /\ th = [t \in Threads |-> IdleLocals]

Called(name, args) == [name |-> name, pc |-> "called", args |-> args]

Returns(v) == [kind |-> "returns", value |-> v]

Raises(e) == [kind |-> "raises", error |-> e]

(* the function called in op returns: result is what `f` makes of its input *)
Apply(name, out) ==
  /\ op.pc = "called"
  /\ op.name = name
  /\ result' = out
  /\ op' = [op EXCEPT !.pc = "returned"]
  /\ UNCHANGED fetchLayer

----------------------------------------------------------------------------
(* Floating-point values.  A finite value is kept exactly, as the fraction  *)
(* n/d in lowest terms (d > 0); nan and the infinities are values of their  *)
(* own, with IEEE-754 arithmetic; None is Python's None.  The square root   *)
(* of a fraction (a standard deviation's quotient) is kept as that          *)
(* fraction with the sign of the value: Root(s, n, d) is s * sqrt(n/d).     *)

Abs(n) == IF n < 0 THEN -n ELSE n

Sign(n) == IF n < 0 THEN -1 ELSE IF n = 0 THEN 0 ELSE 1

RECURSIVE Gcd(_, _)
Gcd(a, b) == IF b = 0 THEN a ELSE Gcd(b, a % b)

Num(n, d) ==
  LET g == Gcd(Abs(n), Abs(d))
  IN [k |-> "num", n |-> (Sign(d) * n) \div g, d |-> Abs(d) \div g]

Zero == [k |-> "num", n |-> 0, d |-> 1]

NaN == [k |-> "nan", n |-> 0, d |-> 1]

Inf(s) == [k |-> "inf", n |-> s, d |-> 1]

None == [k |-> "None", n |-> 0, d |-> 1]

Root(s, n, d) ==
  LET g == Gcd(n, d)
  IN IF n = 0 \/ s = 0 THEN Zero
     ELSE [k |-> "root", n |-> s * (n \div g), d |-> d \div g]

(* a value of which only finiteness is followed *)
Number == [k |-> "number", n |-> 1, d |-> 1]

Abstract(x) == IF x.k \in {"num", "root"} THEN Number ELSE x

XNeg(a) == [a EXCEPT !.n = -a.n]

XAdd(a, b) ==
  IF a.k = "nan" \/ b.k = "nan" THEN NaN
  ELSE IF a.k = "inf" /\ b.k = "inf" THEN (IF a.n = b.n THEN a ELSE NaN)
  ELSE IF a.k = "inf" THEN a
  ELSE IF b.k = "inf" THEN b
  ELSE Num(a.n * b.d + b.n * a.d, a.d * b.d)

XSub(a, b) == XAdd(a, XNeg(b))

XMul(a, b) ==
  IF a.k = "nan" \/ b.k = "nan" THEN NaN
  ELSE IF a.k = "inf" \/ b.k = "inf"
    THEN (IF a.n = 0 \/ b.n = 0 THEN NaN ELSE Inf(Sign(a.n) * Sign(b.n)))
  ELSE Num(a.n * b.n, a.d * b.d)

(* numpy's true division: x/0 is an infinity, 0/0 is nan, with a warning    *)
XDiv(a, b) ==
  IF a.k = "nan" \/ b.k = "nan" THEN NaN
  ELSE IF a.k = "inf" /\ b.k = "inf" THEN NaN
  ELSE IF a.k = "inf" THEN Inf(IF b.n < 0 THEN -a.n ELSE a.n)
  ELSE IF b.k = "inf" THEN Zero
  ELSE IF b.n = 0 THEN (IF a.n = 0 THEN NaN ELSE Inf(Sign(a.n)))
  ELSE Num(a.n * b.d, a.d * b.n)

IsZero(x) == x.k = "num" /\ x.n = 0

RECURSIVE XSumFrom(_, _)
XSumFrom(xs, i) == IF i > Len(xs) THEN Zero ELSE XAdd(xs[i], XSumFrom(xs, i + 1))

(* np.sum / sum() *)
XSum(xs) == XSumFrom(xs, 1)

(* np.mean: nan for an empty array *)
Mean(xs) == XDiv(XSum(xs), Num(Len(xs), 1))

(* np.var (population): the mean of the squared deviations *)
Var(xs) ==
  LET m == Mean(xs)
      dev == [i \in 1..Len(xs) |-> XMul(XSub(xs[i], m), XSub(xs[i], m))]
  IN Mean(dev)

(* np.cov(x, y)[0][1]: the deviations' products over n - 1, over 0 if n < 2 *)
Cov(xs, ys) ==
  LET mx == Mean(xs)
      my == Mean(ys)
      prod == [i \in 1..Len(xs) |-> XMul(XSub(xs[i], mx), XSub(ys[i], my))]
      fact == IF Len(xs) > 1 THEN Len(xs) - 1 ELSE 0
  IN XDiv(XSum(prod), Num(fact, 1))

(* Python truthiness of `x` in `... if x else None`: None and 0.0 are false, *)
(* nan is true                                                              *)
Truthy(x) == x.k # "None" /\ ~IsZero(x)

(* round(x, 4): the nearest multiple of 0.0001, ties to the even one; a     *)
(* root keeps its value unless it rounds to zero; nan and inf are unchanged *)
Round4(x) ==
  IF x.k = "num"
    THEN LET twice == 2 * 10000 * Abs(x.n)
             q == (twice + x.d) \div (2 * x.d)
             tie == (twice + x.d) % (2 * x.d) = 0
             m == IF tie /\ q % 2 = 1 THEN q - 1 ELSE q
         IN Num(Sign(x.n) * m, 10000)
  ELSE IF x.k = "root"
    THEN (IF Abs(x.n) < 6 /\ 400000000 * Abs(x.n) < x.d THEN Zero ELSE x)
  ELSE x

----------------------------------------------------------------------------
(* align_returns.  A return series is a pandas Series over a DatetimeIndex: *)
(* a sequence of <<date, value>> in strictly ascending date order, as       *)
(* hist['Close'].pct_change().dropna() yields it.  The j-th series of an    *)
(* input carries the value 10*j + d at date d, so that a value tells the    *)
(* series and the date it was taken from.                                   *)

MaxDate == 4
MaxSeries == 2

Dates == 1..MaxDate

RECURSIVE AscendingFrom(_, _)
(* the dates of ds from d on, ascending *)
AscendingFrom(ds, d) ==
  IF d > MaxDate THEN <<>>
  ELSE (IF d \in ds THEN <<d>> ELSE <<>>) \o AscendingFrom(ds, d + 1)

SeriesOver(j, ds) ==
  LET idx == AscendingFrom(ds, 1)
  IN [p \in 1..Len(idx) |-> <<idx[p], 10 * j + idx[p]>>]

SeriesLists ==
  UNION {{[j \in 1..n |-> SeriesOver(j, f[j])] : f \in [1..n -> SUBSET Dates]}
           : n \in 0..MaxSeries}

(* `series.index` *)
IndexOf(s) == [p \in 1..Len(s) |-> s[p][1]]

(* `common_index` left as it is: the intersection is not taken *)
IntersectionSkipped(idx, other) == idx

(* `common_index.intersection(series.index)`: the labels of both, in order *)
Intersection(idx, other) ==
  LET InOther(d) == \E q \in 1..Len(other) : other[q] = d
  IN SelectSeq(idx, InOther)

RECURSIVE CommonIndex(_, _, _)
(* `for series in return_series[1:]: common_index = ...`, from series j on *)
CommonIndex(rs, j, common) ==
  IF j > Len(rs) THEN common
  ELSE CommonIndex(rs, j + 1, Intersection(common, IndexOf(rs[j])))

(* `series.reindex(common_index).values`: NaN where the series has no label *)
Reindex(s, idx) ==
  [p \in 1..Len(idx) |->
     IF \E q \in 1..Len(s) : s[q][1] = idx[p]
       THEN s[CHOOSE q \in 1..Len(s) : s[q][1] = idx[p]][2]
       ELSE NaN]

(* an empty list answered with an empty list instead of `return_series[0]` *)
align_returns_lenient(rs) ==
  IF Len(rs) = 0 THEN Returns(<<>>)
  ELSE LET common == CommonIndex(rs, 2, IndexOf(rs[1]))
       IN Returns([j \in 1..Len(rs) |-> Reindex(rs[j], common)])

(* `return_series[0]` raises IndexError on an empty list *)
align_returns(rs) ==
  IF Len(rs) = 0 THEN Raises("IndexError")
  ELSE LET common == CommonIndex(rs, 2, IndexOf(rs[1]))
       IN Returns([j \in 1..Len(rs) |-> Reindex(rs[j], common)])

InitAlign ==
  /\ Quiet
  /\ op \in {Called("align_returns", rs) : rs \in SeriesLists}
  /\ result = NoResult

AlignReturns == Apply("align_returns", align_returns(op.args))

NextAlign == AlignReturns

SpecAlign == InitAlign /\ [][NextAlign]_vars

----------------------------------------------------------------------------
(* calculate_portfolio_metrics and calculate_performance_benchmark, from    *)
(* the point where the histories are in hand.  The input is what the loop   *)
(* over the holdings collected (for each holding with data its value        *)
(* shares * price and its daily returns) and what the market history call   *)
(* gives.  Returns are counted in units of the daily risk-free rate.        *)

MaxPoints == 2
MaxReturn == 2

daily_rf == 1

ANNUAL == 252

ReturnValues == 0..MaxReturn

(* holding.shares * current_price: shares may be zero or negative *)
HoldingValues == {-1, 0, 1}

ReturnSeries ==
  UNION {{LET idx == AscendingFrom(ds, 1)
          IN [p \in 1..Len(idx) |-> <<idx[p], Num(f[idx[p]], 1)>>]
            : f \in [ds -> ReturnValues]} : ds \in SUBSET (1..MaxPoints)}

HoldingData == [value : HoldingValues, returns : ReturnSeries]

(* `spy.history(...)` raises, or gives the market's daily returns *)
MarketOutcomes ==
  {[ok |-> FALSE, returns |-> <<>>]} \cup
  UNION {{[ok |-> TRUE, returns |-> [p \in 1..n |-> Num(f[p], 1)]]
            : f \in [1..n -> ReturnValues]} : n \in 0..MaxPoints}

MetricInputs ==
  [holdings : UNION {[1..n -> HoldingData] : n \in 0..MaxSeries},
   market : MarketOutcomes]

(* `weights = weights / weights.sum()` *)
NormalizedWeights(hs) ==
  LET total == XSum([i \in 1..Len(hs) |-> Num(hs[i].value, 1)])
  IN [i \in 1..Len(hs) |-> XDiv(Num(hs[i].value, 1), total)]

RECURSIVE WeightedFrom(_, _, _, _)
(* `weighted_returns += weights[i] * returns`, from holding i on, at date p *)
WeightedFrom(weights, aligned, i, p) ==
  IF i > Len(aligned) THEN Zero
  ELSE XAdd(XMul(weights[i], aligned[i][p]),
            WeightedFrom(weights, aligned, i + 1, p))

(* the weighted portfolio returns over the aligned dates *)
WeightedReturns(hs) ==
  LET weights == NormalizedWeights(hs)
      aligned == align_returns([i \in 1..Len(hs) |-> hs[i].returns]).value
  IN [p \in 1..Len(aligned[1]) |-> WeightedFrom(weights, aligned, 1, p)]

(* np.std(returns) * np.sqrt(252), of which only finiteness is followed *)
calculate_volatility(returns) == Abstract(Var(returns))

(* mean(excess) / std(excess) * sqrt(252), None without points or spread *)
calculate_sharpe_ratio(returns) ==
  IF Len(returns) = 0 THEN None
  ELSE LET excess == [p \in 1..Len(returns) |->
                        XSub(returns[p], Num(daily_rf, 1))]
           variance == Var(excess)
           mean == Mean(excess)
       IN IF IsZero(variance) THEN None
          ELSE IF variance.k # "num" THEN NaN
          ELSE Root(Sign(mean.n), ANNUAL * mean.n * mean.n * variance.d,
                    mean.d * mean.d * variance.n)

(* `xs[-m:]`: the last m elements, and all of them when m is 0 *)
PyTail(xs, m) ==
  IF m = 0 \/ m >= Len(xs) THEN xs ELSE [p \in 1..m |-> xs[Len(xs) - m + p]]

(* covariance with the market over the market's variance; None when the    *)
(* variance is zero and when anything in the try block raises (the history *)
(* call, np.cov on arrays of different lengths)                             *)
calculate_beta(portfolio_returns, market) ==
  IF ~market.ok THEN None
  ELSE LET min_len == Min(Len(portfolio_returns), Len(market.returns))
           pr == PyTail(portfolio_returns, min_len)
           mr == PyTail(market.returns, min_len)
       IN IF Len(pr) # Len(mr) THEN None
          ELSE LET covariance == Cov(pr, mr)
                   market_variance == Var(mr)
               IN IF IsZero(market_variance) THEN None
                  ELSE XDiv(covariance, market_variance)

(* abs(min(drawdown)) of the cumulative product, 0.0 for an empty array;    *)
(* only finiteness is followed                                              *)
calculate_max_drawdown(returns) ==
  IF Len(returns) = 0 THEN Zero
  ELSE IF \A p \in 1..Len(returns) : returns[p].k = "num" THEN Number
  ELSE NaN

(* `round(x, 4) if x else None` *)
RoundedIfTruthy(x) == IF Truthy(x) THEN Round4(x) ELSE None

calculate_portfolio_metrics(input) ==
  IF Len(input.holdings) = 0
    THEN Returns([sharpe_ratio |-> None, volatility |-> Zero, beta |-> None,
                  max_drawdown |-> Zero, average_return |-> Zero])
  ELSE LET weighted_returns == WeightedReturns(input.holdings)
           sharpe_ratio == calculate_sharpe_ratio(weighted_returns)
           beta == calculate_beta(weighted_returns, input.market)
       IN Returns([sharpe_ratio |-> RoundedIfTruthy(sharpe_ratio),
                   volatility |-> calculate_volatility(weighted_returns),
                   beta |-> RoundedIfTruthy(beta),
                   max_drawdown |-> calculate_max_drawdown(weighted_returns),
                   average_return |-> Abstract(Mean(weighted_returns))])

(* whether every element is finite; a cumulative product, a power or a      *)
(* standard deviation of the array is then a number, else nan or infinite   *)
FiniteOrNaN(xs) ==
  IF \A p \in 1..Len(xs) : xs[p].k = "num" THEN Number ELSE NaN

calculate_performance_benchmark(input) ==
  IF Len(input.holdings) = 0
    THEN Returns([error |-> "Could not calculate portfolio returns"])
  ELSE LET weighted_returns == WeightedReturns(input.holdings)
       IN IF ~input.market.ok
            THEN Returns([error |-> "Could not fetch benchmark data"])
          ELSE IF Len(weighted_returns) = 0 \/ Len(input.market.returns) = 0
            THEN Raises("IndexError")
          ELSE Returns([portfolio |-> FiniteOrNaN(weighted_returns),
                        benchmark |-> FiniteOrNaN(input.market.returns),
                        alpha |-> FiniteOrNaN(weighted_returns),
                        outperformance |-> FiniteOrNaN(weighted_returns)])

InitMetrics ==
  /\ Quiet
  /\ op \in {Called(name, input) :
               name \in {"calculate_portfolio_metrics",
                         "calculate_performance_benchmark"},
               input \in MetricInputs}
  /\ result = NoResult

PortfolioMetrics ==
  Apply("calculate_portfolio_metrics", calculate_portfolio_metrics(op.args))

PerformanceBenchmark ==
  Apply("calculate_performance_benchmark",
        calculate_performance_benchmark(op.args))

NextMetrics == PortfolioMetrics \/ PerformanceBenchmark

SpecMetrics == InitMetrics /\ [][NextMetrics]_vars

----------------------------------------------------------------------------
(* calculate_correlation_matrix, from the point where the histories are in  *)
(* hand: returns_dict holds the daily returns of each distinct ticker that  *)
(* has data, in insertion order.                                            *)

ReturnsDicts == UNION {[1..n -> ReturnSeries] : n \in 0..MaxSeries}

IsSquare(n) == \E r \in 0..n : r * r = n

Sqrt(n) == CHOOSE r \in 0..n : r * r = n

(* np.corrcoef(x, y)[0, 1]: the covariance over the square root of the      *)
(* product of the variances (ddof = 1); nan when a variance is zero         *)
corrcoef(xs, ys) ==
  LET c == Cov(xs, ys)
      v == XMul(Cov(xs, xs), Cov(ys, ys))
  IN IF c.k # "num" \/ v.k # "num" THEN NaN
     ELSE IF v.n = 0 THEN XDiv(c, v)
     ELSE LET sq == Num(c.n * c.n * v.d, c.d * c.d * v.n)
          IN IF IsSquare(sq.n) /\ IsSquare(sq.d)
               THEN Num(Sign(c.n) * Sqrt(sq.n), Sqrt(sq.d))
               ELSE Root(Sign(c.n), sq.n, sq.d)

NeedTwo ==
  [error |-> "Need at least 2 holdings to calculate correlation",
   correlation |-> <<>>]

calculate_correlation_matrix(returns_dict) ==
  IF Len(returns_dict) < 2 THEN Returns(NeedTwo)
  ELSE LET common_index == CommonIndex(returns_dict, 2, IndexOf(returns_dict[1]))
           aligned == [t \in 1..Len(returns_dict) |->
                         [p \in 1..Len(common_index) |->
                            Reindex(returns_dict[t], common_index)[p]]]
           Entry(t1, t2) ==
             IF Len(aligned[t1]) > 1 /\ Len(aligned[t2]) > 1
               THEN Round4(corrcoef(aligned[t1], aligned[t2]))
               ELSE Zero
       IN Returns([error |-> "",
                   correlation |-> [t1 \in 1..Len(returns_dict) |->
                                      [t2 \in 1..Len(returns_dict) |->
                                         Entry(t1, t2)]]])

InitCorrelation ==
  /\ Quiet
  /\ op \in {Called("calculate_correlation_matrix", d) : d \in ReturnsDicts}
  /\ result = NoResult

CorrelationMatrix ==
  Apply("calculate_correlation_matrix", calculate_correlation_matrix(op.args))

NextCorrelation == CorrelationMatrix

SpecCorrelation == InitCorrelation /\ [][NextCorrelation]_vars

----------------------------------------------------------------------------
(* The indicator functions behind calculate_technical_indicators.  Prices   *)
(* are hist['Close'].values, whole numbers of price units here; the look-   *)
(* back periods (14 for the RSI; 12, 26 and 9 for the MACD in the source)   *)
(* are the functions' parameters and are drawn from small sets.             *)

MaxPrices == 4
MaxPrice == 3
MaxPeriod == 2

PriceArrays ==
  UNION {[1..n -> {Num(v, 1) : v \in 1..MaxPrice}] : n \in 0..MaxPrices}

(* a < b on floats: false when either is nan *)
XLt(a, b) ==
  /\ a.k # "nan"
  /\ b.k # "nan"
  /\ IF a.k = "inf" THEN a.n < 0 /\ ~(b.k = "inf" /\ b.n < 0)
     ELSE IF b.k = "inf" THEN b.n > 0
     ELSE a.n * b.d < b.n * a.d

(* a <= b on floats *)
XLe(a, b) == XLt(a, b) \/ (a.k # "nan" /\ a = b)

(* np.diff *)
Diff(prices) ==
  [i \in 1..(IF Len(prices) = 0 THEN 0 ELSE Len(prices) - 1) |->
     XSub(prices[i + 1], prices[i])]

(* the length test off by one: `len(prices) < period` *)
calculate_rsi_short(prices, period) ==
  IF Len(prices) < period THEN None
  ELSE LET deltas == Diff(prices)
           gains == [i \in DOMAIN deltas |->
                       IF XLt(Zero, deltas[i]) THEN deltas[i] ELSE Zero]
           losses == [i \in DOMAIN deltas |->
                        IF XLt(deltas[i], Zero) THEN XNeg(deltas[i]) ELSE Zero]
           avg_gain == Mean(PyTail(gains, period))
           avg_loss == Mean(PyTail(losses, period))
           rs == XDiv(avg_gain, avg_loss)
       IN IF IsZero(avg_loss) THEN Num(100, 1)
          ELSE XSub(Num(100, 1), XDiv(Num(100, 1), XAdd(Num(1, 1), rs)))

calculate_rsi(prices, period) ==
  IF Len(prices) < period + 1 THEN None
  ELSE LET deltas == Diff(prices)
           gains == [i \in DOMAIN deltas |->
                       IF XLt(Zero, deltas[i]) THEN deltas[i] ELSE Zero]
           losses == [i \in DOMAIN deltas |->
                        IF XLt(deltas[i], Zero) THEN XNeg(deltas[i]) ELSE Zero]
           avg_gain == Mean(PyTail(gains, period))
           avg_loss == Mean(PyTail(losses, period))
           rs == XDiv(avg_gain, avg_loss)
       IN IF IsZero(avg_loss) THEN Num(100, 1)
          ELSE XSub(Num(100, 1), XDiv(Num(100, 1), XAdd(Num(1, 1), rs)))

get_rsi_signal(rsi) ==
  IF XLe(Num(70, 1), rsi) THEN "Overbought"
  ELSE IF XLe(rsi, Num(30, 1)) THEN "Oversold"
  ELSE "Neutral"

InitRsi ==
  /\ Quiet
  /\ op \in {Called("calculate_rsi", [prices |-> p, period |-> n])
               : p \in PriceArrays, n \in 1..MaxPeriod}
  /\ result = NoResult

CalculateRsi ==
  Apply("calculate_rsi", Returns(calculate_rsi(op.args.prices, op.args.period)))

(* `get_rsi_signal(rsi) if rsi is not None else None` *)
GetRsiSignal ==
  /\ op.pc = "returned"
  /\ op.name = "calculate_rsi"
  /\ result.value # None
  /\ op' = [name |-> "get_rsi_signal", pc |-> "returned",
            args |-> [prices |-> op.args.prices, period |-> op.args.period,
                      rsi |-> result.value]]
  /\ result' = Returns(get_rsi_signal(result.value))
  /\ UNCHANGED fetchLayer

NextRsi == CalculateRsi \/ GetRsiSignal

SpecRsi == InitRsi /\ [][NextRsi]_vars

(* calculate_macd.  Its prices are counted in steps of PriceStep (0.0001 of *)
(* the price unit, the precision of the returned fields): both              *)
(* lines are differences of averages of the prices, so they are the same    *)
(* number of steps whatever common base price the steps are added to.       *)
PriceStep == Num(1, 10000)

MacdInputs ==
  [prices : PriceArrays, fast : 1..MaxPeriod, slow : 1..MaxPeriod,
   signal : 1..MaxPeriod]

RECURSIVE EmaFrom(_, _, _, _)
(* `for price in prices[period:]: ema = (price - ema) * multiplier + ema` *)
EmaFrom(prices, i, ema, multiplier) ==
  IF i > Len(prices) THEN ema
  ELSE EmaFrom(prices, i + 1,
               XAdd(XMul(XSub(prices[i], ema), multiplier), ema), multiplier)

calculate_ema(prices, period) ==
  IF Len(prices) < period THEN Mean(prices)
  ELSE EmaFrom(prices, period + 1, Mean(SubSeq(prices, 1, period)),
               Num(2, period + 1))

(* `ema_fast - ema_slow` *)
macd_line(prices, fast, slow) ==
  XSub(calculate_ema(prices, fast), calculate_ema(prices, slow))

(* the mean of the last `signal` MACD values of the prefixes prices[:i+1],  *)
(* i in range(slow, len(prices)); the MACD line itself on a short series    *)
signal_line(prices, fast, slow, signal) ==
  IF Len(prices) >= slow + signal
    THEN LET macd_values ==
               [j \in 1..(Len(prices) - slow) |->
                  macd_line(SubSeq(prices, 1, slow + j), fast, slow)]
         IN IF Len(macd_values) >= signal
              THEN Mean(PyTail(macd_values, signal))
              ELSE macd_line(prices, fast, slow)
    ELSE macd_line(prices, fast, slow)

(* `round(float(x), 4)` of a number of price steps *)
RoundedField(x) == Round4(XMul(x, PriceStep))

(* the trend read off the rounded histogram *)
calculate_macd_rounded(prices, fast, slow, signal) ==
  IF Len(prices) < slow
    THEN [macd |-> None, signal |-> None, histogram |-> None, trend |-> None]
  ELSE LET histogram == XSub(macd_line(prices, fast, slow),
                             signal_line(prices, fast, slow, signal))
       IN [macd |-> RoundedField(macd_line(prices, fast, slow)),
           signal |-> RoundedField(signal_line(prices, fast, slow, signal)),
           histogram |-> RoundedField(histogram),
           trend |-> IF XLt(Zero, RoundedField(histogram))
                       THEN "Bullish" ELSE "Bearish"]

calculate_macd(prices, fast, slow, signal) ==
  IF Len(prices) < slow
    THEN [macd |-> None, signal |-> None, histogram |-> None, trend |-> None]
  ELSE LET histogram == XSub(macd_line(prices, fast, slow),
                             signal_line(prices, fast, slow, signal))
       IN [macd |-> RoundedField(macd_line(prices, fast, slow)),
           signal |-> RoundedField(signal_line(prices, fast, slow, signal)),
           histogram |-> RoundedField(histogram),
           trend |-> IF XLt(Zero, histogram) THEN "Bullish" ELSE "Bearish"]

InitMacd ==
  /\ Quiet
  /\ op \in {Called("calculate_macd", a) : a \in MacdInputs}
  /\ result = NoResult

CalculateMacd ==
  Apply("calculate_macd",
        Returns(calculate_macd(op.args.prices, op.args.fast, op.args.slow,
                               op.args.signal)))

NextMacd == CalculateMacd

SpecMacd == InitMacd /\ [][NextMacd]_vars

----------------------------------------------------------------------------
(* Claims *)

Attempts == IF mod = "analytics" THEN max_retries ELSE 1

(* thread t takes the step that leaves label `from` *)
Leaves(t, from) == th[t].pc = from /\ th'[t].pc # from

(* C1: a call whose cache check finds the key's entry younger than its ttl  *)
(* returns exactly the cached value, has invoked the fetch function zero    *)
(* times, and touches neither the cache nor the rate limiter.               *)
C1_FreshHitReturnsCached ==
  [][\A t \in Threads :
       (/\ Leaves(t, "check")
        /\ Key(t) \in DOMAIN cache
        /\ cache[Key(t)][2] < th[t].cache_duration)
       => /\ th'[t].pc = "done"
          /\ th'[t].ret = cache[Key(t)][1]
          /\ th'[t].nfetch = 0
          /\ cache' = cache
          /\ last_request_time' = last_request_time]_vars

C1_Witness ==
  \E t \in Threads :
    /\ th[t].pc = "done" /\ th[t].seen = "fresh" /\ th[t].ret \in Values
    /\ \E u \in Threads \ {t} : th[u].cache_key # th[t].cache_key /\ th[u].nfetch > 0

(* C2: a call that found the key's entry present but expired and whose      *)
(* fetch function did not fail returns only through the cache write, after  *)
(* exactly one invocation, and the write replaces the entry by the fetched  *)
(* value with a fresh timestamp (age 0).                                    *)
C2_ExpiredRefetchesOnce ==
  [][\A t \in Threads :
       (/\ th[t].pc # "done" /\ th'[t].pc = "done"
        /\ th'[t].seen = "expired" /\ th'[t].fails = 0)
       => /\ th[t].pc = "put"
          /\ th[t].nfetch = 1 /\ th'[t].nfetch = 1
          /\ Key(t) \in DOMAIN cache'
          /\ cache'[Key(t)] = <<th[t].data, 0>>
          /\ th'[t].ret = th[t].data]_vars

C2_Witness ==
  \E t \in Threads :
    /\ th[t].pc = "done" /\ th[t].seen = "expired"
    /\ th[t].fails = 0 /\ th[t].nfetch = 1
    /\ Key(t) \in DOMAIN cache /\ cache[Key(t)] = <<th[t].ret, 0>>

(* C3: a call that found the key's entry expired and all of whose fetch     *)
(* attempts failed returns the value the entry holds at the fallback check  *)
(* and does not raise; the entry keeps its value and timestamp.             *)
C3_StaleFallback ==
  [][\A t \in Threads :
       (Leaves(t, "stale") /\ th[t].seen = "expired")
       => /\ Key(t) \in DOMAIN cache
          /\ th'[t].pc = "done"
          /\ th'[t].ret = cache[Key(t)][1]
          /\ th[t].fails = Attempts /\ th[t].nfetch = Attempts
          /\ cache' = cache]_vars

C3_Witness ==
  \E t \in Threads :
    /\ th[t].pc = "done" /\ th[t].seen = "expired"
    /\ th[t].fails = Attempts /\ th[t].ret \in Values

(* C4: a call raises only from the fallback check, after every one of its   *)
(* attempts failed and with no entry for the key in the cache; it raises    *)
(* the error of its last attempt and leaves the key without an entry.       *)
C4_RaiseOnlyWithoutEntry ==
  [][\A t \in Threads :
       (th[t].pc # "raised" /\ th'[t].pc = "raised")
       => /\ th[t].pc = "stale"
          /\ th[t].fails = Attempts /\ th[t].nfetch = Attempts
          /\ Key(t) \notin DOMAIN cache
          /\ Key(t) \notin DOMAIN cache'
          /\ th'[t].err = th[t].last_error
          /\ th'[t].err.attempt = Attempts - 1]_vars

C4_Witness ==
  \E t \in Threads :
    /\ mod = "analytics" /\ th[t].pc = "raised"
    /\ th[t].err.attempt = max_retries - 1 /\ th[t].fails = max_retries

(* C5: when a caller records its request time for a key that already has a  *)
(* recorded time, the earlier record is at least MIN_REQUEST_DELAY old.     *)
C5_PassesSpaced ==
  [][\A t \in Threads :
       (Leaves(t, "rate_stamp") /\ Key(t) \in DOMAIN last_request_time)
       => /\ last_request_time[Key(t)] >= MinDelay(mod)
          /\ last_request_time'[Key(t)] = 0]_vars

C5_Witness ==
  \E t \in Threads :
    /\ th[t].pc = "rate_stamp" /\ th[t].sleep_left = 0
    /\ Key(t) \in DOMAIN last_request_time
    /\ \E u \in Threads \ {t} : th[u].pc = "lock_rate" /\ Key(u) = Key(t)

(* C6: in _get_cached_or_fetch a call whose fetch function failed twice and *)
(* then succeeded has invoked it exactly 3 times and asked for exactly two  *)
(* backoff sleeps, the i-th of 2^(i-1) seconds after an ordinary error and  *)
(* of 5*i seconds after an error whose text carries "429" or "Too Many      *)
(* Requests"; it returns and caches the third invocation's result.          *)
C6_Schedule(i, limited) == IF limited THEN 5 * i ELSE IF i = 1 THEN 1 ELSE 2

C6_FailTwiceThenSucceed ==
  [][\A t \in Threads :
       (mod = "analytics" /\ Leaves(t, "put") /\ th[t].fails = 2)
       => /\ th[t].nfetch = 3
          /\ Len(th[t].sleeps) = 2
          /\ \A i \in 1..2 :
               th[t].sleeps[i][2] = C6_Schedule(i, th[t].sleeps[i][1])
          /\ th'[t].pc = "done"
          /\ th'[t].ret = th[t].data
          /\ cache'[Key(t)] = <<th[t].data, 0>>]_vars

C6_Witness ==
  \E t \in Threads :
    /\ mod = "analytics" /\ th[t].pc = "put" /\ th[t].fails = 2
    /\ th[t].sleeps = <<<<TRUE, 5>>, <<TRUE, 10>>>>
    /\ th[t].sleep_left = 0

(* C7: a caller waiting to enter the rate-limiter section for a key whose   *)
(* spacing is already satisfied can enter it even while another caller      *)
(* sleeps in the section for a different key.                               *)
SpacingSatisfied(k) ==
  k \notin DOMAIN last_request_time \/ last_request_time[k] >= MinDelay(mod)

C7_OtherKeyNotBlocked ==
  \A t \in Threads, u \in Threads :
    (/\ th[t].pc = "rate_sleep" /\ th[t].sleep_left > 0
     /\ th[u].pc = "lock_rate" /\ Key(u) # Key(t)
     /\ SpacingSatisfied(Key(u)))
    => request_lock = NoThread

(* C8: no caller holds the cache lock and the rate-limiter lock together;   *)
(* the cache lock is not held by a caller that sleeps or runs the fetch     *)
(* function; a caller in a retry backoff sleep holds neither lock.          *)
C8_LockDiscipline ==
  /\ ~(cache_lock # NoThread /\ cache_lock = request_lock)
  /\ \A t \in Threads :
       /\ th[t].pc \in {"rate_sleep", "backoff", "fetching"} => cache_lock # t
       /\ th[t].pc = "backoff" => request_lock # t
       /\ cache_lock = t => th[t].pc \in {"check", "put", "stale"}
       /\ request_lock = t => th[t].pc \in {"rate", "rate_sleep", "rate_stamp"}

C8_Witness ==
  \E t \in Threads, u \in Threads :
    /\ th[t].pc = "backoff" /\ th[t].sleep_left > 0
    /\ th[u].pc = "rate_sleep" /\ request_lock = u /\ cache_lock = NoThread

(* C9: nothing holds back a caller about to invoke the fetch function, also *)
(* not another caller's fetch for the same key being in progress: two       *)
(* fetches for one key can be in flight together.                           *)
C9_NoSingleFlight ==
  \A t \in Threads :
    (\/ (mod = "analytics" /\ th[t].pc = "loop" /\ th[t].attempt < max_retries)
     \/ (mod = "api" /\ th[t].pc = "call"))
    => ENABLED (NextAttempt(t) \/ ApiFetchStarts(t))

C9_Witness ==
  \E t \in Threads, u \in Threads :
    /\ t # u /\ Key(t) = Key(u)
    /\ th[t].pc = "fetching" /\ th[u].pc = "fetching"
    /\ th[t].seen # "fresh" /\ th[u].seen # "fresh"

(* C10: a key has one entry at most (the cache is a function of the key);   *)
(* an entry is never removed; it changes only by ageing or by a caller's    *)
(* cache write, which leaves it holding that caller's value with a fresh    *)
(* timestamp, whatever it held before.                                      *)
C10_Aged(e) == <<e[1], Min(e[2] + 1, MaxTTL)>>

C10_LastWriteWins ==
  [][/\ \A k \in Keys :
          /\ k \in DOMAIN cache => k \in DOMAIN cache'
          /\ (/\ k \in DOMAIN cache'
              /\ \/ k \notin DOMAIN cache
                 \/ cache'[k] \notin {cache[k], C10_Aged(cache[k])})
             => \E t \in Threads :
                  /\ Leaves(t, "put") /\ Key(t) = k
                  /\ cache'[k] = <<th[t].data, 0>>
     /\ \A t \in Threads :
          Leaves(t, "put") =>
            /\ Key(t) \in DOMAIN cache'
            /\ cache'[Key(t)] = <<th[t].data, 0>>]_vars

C10_Witness ==
  \E t \in Threads, u \in Threads :
    /\ t # u /\ Key(t) = Key(u)
    /\ th[t].pc = "done" /\ th[t].nfetch = 1 /\ th[t].fails = 0
    /\ th[u].pc = "raised"
    /\ cache[Key(t)] = <<th[t].ret, MaxTTL>>

(* C11: every call to the upstream source in progress is the fetch function *)
(* of a get-or-fetch call that missed the cache and passed the rate limiter *)
(* for its key; no operation is ever inside an upstream call of its own.    *)
C11_UpstreamOnlyInsideFetch ==
  /\ op.pc # "upstream"
  /\ \A t \in Threads :
       th[t].pc = "fetching" =>
         /\ th[t].seen \in {"absent", "expired"}
         /\ Key(t) \in DOMAIN last_request_time

(* C12: align_returns on a non-empty list returns one array per series, in  *)
(* input order, each as long as the number of dates common to all series,   *)
(* and position p of every array holds that series' value at the p-th       *)
(* common date in ascending order.                                          *)
C12_CommonDates(rs) ==
  {d \in Dates : \A j \in 1..Len(rs) : \E q \in 1..Len(rs[j]) : rs[j][q][1] = d}

C12_Nth(ds, p) == CHOOSE d \in ds : Cardinality({e \in ds : e < d}) = p - 1

C12_AlignedOnCommonDates ==
  (op.name = "align_returns" /\ op.pc = "returned" /\ Len(op.args) > 0) =>
    LET rs == op.args
        common == C12_CommonDates(rs)
    IN /\ result.kind = "returns"
       /\ Len(result.value) = Len(rs)
       /\ \A j \in 1..Len(rs) :
            /\ Len(result.value[j]) = Cardinality(common)
            /\ \A p \in 1..Cardinality(common) :
                 result.value[j][p] = 10 * j + C12_Nth(common, p)

C12_Witness ==
  /\ op.name = "align_returns" /\ op.pc = "returned"
  /\ op.args = <<SeriesOver(1, {1, 2, 3}), SeriesOver(2, {2, 3, 4})>>
  /\ result = Returns(<<<<12, 13>>, <<22, 23>>>>)

(* C13: align_returns raises on an empty list of series, whereas on series  *)
(* without a common date it returns, with a zero-length array per series.   *)
C13_EmptyCases ==
  (op.name = "align_returns" /\ op.pc = "returned") =>
    /\ Len(op.args) = 0 => result.kind = "raises"
    /\ (Len(op.args) > 0 /\ C12_CommonDates(op.args) = {}) =>
         /\ result.kind = "returns"
         /\ result.value = [j \in 1..Len(op.args) |-> <<>>]

C13_Witness ==
  /\ op.name = "align_returns" /\ op.pc = "returned"
  /\ op.args = <<SeriesOver(1, {1, 2}), SeriesOver(2, {3, 4})>>
  /\ result = Returns(<<<<>>, <<>>>>)

(* C14: in the result of calculate_portfolio_metrics sharpe_ratio is None   *)
(* exactly when the weighted returns are empty or their excess returns have *)
(* zero variance, and (for non-empty weighted returns) beta is None exactly *)
(* when the market fetch failed or gave nothing or the market returns used  *)
(* have zero variance; so a metric computed as zero is never reported None. *)
C14_AllEqual(xs) ==
  /\ Len(xs) > 0
  /\ \A p \in 1..Len(xs) : xs[p].k = "num" /\ xs[p] = xs[1]

C14_MarketUsed(w, market) ==
  PyTail(market.returns, Min(Len(w), Len(market.returns)))

C14_AbsentIffUndefined ==
  (/\ op.name = "calculate_portfolio_metrics" /\ op.pc = "returned"
   /\ Len(op.args.holdings) > 0) =>
    LET w == WeightedReturns(op.args.holdings)
        market == op.args.market
    IN /\ (result.value.sharpe_ratio = None) <=> (Len(w) = 0 \/ C14_AllEqual(w))
       /\ Len(w) > 0 =>
            ((result.value.beta = None) <=>
               \/ ~market.ok
               \/ Len(market.returns) = 0
               \/ C14_AllEqual(C14_MarketUsed(w, market)))

(* C15: every matrix calculate_correlation_matrix returns has 1.0 in every  *)
(* self-pair entry and is symmetric (Python's ==, under which nan equals    *)
(* nothing), whatever the number of common dates.                           *)
C15_PyEq(a, b) == a.k # "nan" /\ b.k # "nan" /\ a = b

C15_UnitDiagonalSymmetric ==
  (/\ op.pc = "returned"
   /\ op.name = "calculate_correlation_matrix"
   /\ result.kind = "returns"
   /\ result.value.error = "")
    => LET corr == result.value.correlation
       IN /\ \A t \in DOMAIN corr : C15_PyEq(corr[t][t], Num(1, 1))
          /\ \A i \in DOMAIN corr : \A j \in DOMAIN corr :
               C15_PyEq(corr[i][j], corr[j][i])

(* C16: when the holding values sum to zero and the holdings share a date,  *)
(* so that the result's fields are computed from the weights,               *)
(* calculate_portfolio_metrics and calculate_performance_benchmark raise    *)
(* instead of returning a result.                                           *)
C16_ZeroSumFails ==
  (/\ op.name \in {"calculate_portfolio_metrics",
                   "calculate_performance_benchmark"}
   /\ op.pc = "returned"
   /\ Len(op.args.holdings) > 0
   /\ IsZero(XSum([i \in 1..Len(op.args.holdings) |->
                     Num(op.args.holdings[i].value, 1)]))
   /\ Len(WeightedReturns(op.args.holdings)) > 0) =>
    result.kind = "raises"

(* C17: on at least period+1 prices whose trailing `period` day-over-day    *)
(* deltas hold no negative delta calculate_rsi returns exactly 100.0 and    *)
(* get_rsi_signal says "Overbought"; on fewer than period+1 prices          *)
(* calculate_rsi returns None.                                              *)
C17_NoTrailingLoss(prices, period) ==
  /\ Len(prices) >= period + 1
  /\ \A i \in 1..(Len(prices) - 1) :
       i >= Len(prices) - period => prices[i + 1].n >= prices[i].n

C17_RsiMaximalOrAbsent ==
  /\ (op.pc = "returned" /\ op.name = "calculate_rsi") =>
       /\ Len(op.args.prices) < op.args.period + 1 => result = Returns(None)
       /\ C17_NoTrailingLoss(op.args.prices, op.args.period) =>
            result = Returns(Num(100, 1))
  /\ (op.pc = "returned" /\ op.name = "get_rsi_signal") =>
       (C17_NoTrailingLoss(op.args.prices, op.args.period) =>
          /\ op.args.rsi = Num(100, 1)
          /\ result = Returns("Overbought"))

C17_Witness ==
  /\ op.pc = "returned"
  /\ op.name = "get_rsi_signal"
  /\ op.args.prices = <<Num(3, 1), Num(1, 1), Num(2, 1), Num(2, 1)>>
  /\ op.args.period = 2
  /\ op.args.rsi = Num(100, 1)
  /\ result = Returns("Overbought")

(* C18 as stated: calculate_macd returns all four fields absent exactly on  *)
(* fewer than `slow` prices; otherwise the returned histogram is the        *)
(* returned macd less the returned signal and the trend is "Bullish"        *)
(* exactly when the returned histogram is positive, and on slow <= n <      *)
(* slow + signal prices the histogram is 0 and the trend "Bearish".         *)
C18_Absent(r) ==
  r.macd = None /\ r.signal = None /\ r.histogram = None /\ r.trend = None

C19_Backoff(i, limited) == IF limited THEN 5 * (i + 1) ELSE IF i = 0 THEN 1 ELSE 2

C20_Expected(i, limited) == IF limited THEN 5 * i ELSE IF i = 1 THEN 1 ELSE 2

C20_AllAttemptsFailed ==
  \A t \in Threads :
    (mod = "analytics" /\ th[t].pc \in {"lock_stale", "stale"})
    => /\ th[t].nfetch = max_retries
       /\ th[t].fails = max_retries
       /\ th[t].sleep_left = 0
       /\ th[t].last_error.attempt = max_retries - 1
       /\ Len(th[t].sleeps) =
            IF th[t].last_error.text # {} THEN max_retries ELSE max_retries - 1
       /\ \A i \in 1..Len(th[t].sleeps) :
            /\ th[t].sleeps[i][2] = C20_Expected(i, th[t].sleeps[i][1])
            /\ i = max_retries => th[t].sleeps[i][1]

C20_Witness ==
  \E t \in Threads :
    /\ mod = "analytics" /\ th[t].pc = "stale"
    /\ th[t].sleeps = <<<<FALSE, 1>>, <<TRUE, 10>>, <<TRUE, 15>>>>
    /\ Key(t) \notin DOMAIN cache

(* C21: under fair scheduling every call, once entered, returns or raises,  *)
(* whatever other calls on the same or on other keys do meanwhile, and no   *)
(* call invokes the fetch function more often than max_retries times (once, *)
(* in _get_cached_or_fetch_api).                                            *)
C21_EveryCallEnds ==
  /\ [](\A t \in Threads :
          th[t].nfetch <= IF mod = "analytics" THEN max_retries ELSE 1)
  /\ \A t \in Threads : Active(t) ~> ~Active(t)

C21_Witness ==
  \E t \in Threads, u \in Threads :
    /\ t # u
    /\ th[t].pc = "stale" /\ cache_lock = t /\ th[t].nfetch = max_retries
    /\ th[u].pc = "lock_put" /\ Key(u) = Key(t)

(* C22: the cache entry of a key changes only when a call for that key      *)
(* stores the value its latest invocation of the fetch function returned    *)
(* (all its earlier invocations, if any, having failed); a failing          *)
(* invocation leaves the cache as it is; and the recorded request time of a *)
(* key is set only by a call for that key.                                  *)
C22_EntryWritten(k) ==
  /\ k \in DOMAIN cache'
  /\ \/ k \notin DOMAIN cache
     \/ cache'[k][1] # cache[k][1]
     \/ cache'[k][2] < cache[k][2]

C22_TimeRecorded(k) ==
  /\ k \in DOMAIN last_request_time'
  /\ \/ k \notin DOMAIN last_request_time
     \/ last_request_time'[k] < last_request_time[k]

C22_OnlyFetchedValuesOwnKey ==
  /\ [](\A t \in Threads :
          th[t].pc \in {"lock_put", "put"}
            => th[t].data \in Values /\ th[t].nfetch = th[t].fails + 1)
  /\ [][/\ \A t \in Threads :
             /\ Leaves(t, "fetching") =>
                  \/ th'[t].fails = th[t].fails + 1 /\ th'[t].data = NoData
                  \/ th'[t].fails = th[t].fails /\ th'[t].pc = "lock_put"
             /\ th'[t].fails > th[t].fails => cache' = cache
             /\ Leaves(t, "lock_put") => th'[t].data = th[t].data
        /\ \A k \in Keys :
             /\ C22_EntryWritten(k) =>
                  \E t \in Threads :
                    /\ Leaves(t, "put") /\ th[t].cache_key = k
                    /\ cache'[k] = <<th[t].data, 0>>
                    /\ \A j \in Keys \ {k} : ~C22_EntryWritten(j)
             /\ C22_TimeRecorded(k) =>
                  \E t \in Threads :
                    /\ Leaves(t, "rate_stamp") /\ th[t].cache_key = k
                    /\ \A j \in Keys \ {k} : ~C22_TimeRecorded(j)]_vars

C22_Witness ==
  \E t \in Threads, u \in Threads :
    /\ t # u /\ th[t].cache_key # th[u].cache_key
    /\ th[t].pc = "done" /\ th[t].fails = 0 /\ th[t].nfetch = 1
    /\ th[u].pc = "done" /\ th[u].fails = 1 /\ th[u].nfetch = 2
    /\ cache[th[t].cache_key][1] = th[t].ret
    /\ cache[th[u].cache_key] = <<th[u].ret, 0>>
    /\ th[t].ret # th[u].ret

(* C23: _get_cached_or_fetch_api never retries.  A call that missed the     *)
(* cache has invoked the fetch function exactly once when it hands back;    *)
(* after the one failure it is at the stale fallback at once, with no       *)
(* backoff sleep asked for or running, and it raises only after that one    *)
(* failure.                                                                 *)
C23_ApiNoRetry ==
  \A t \in Threads :
    mod = "api" =>
      /\ th[t].nfetch <= 1
      /\ th[t].attempt = 0
      /\ th[t].sleeps = <<>>
      /\ th[t].pc \notin {"loop", "backoff"}
      /\ th[t].pc \in {"fetching", "lock_put", "put", "lock_stale", "stale"}
           => th[t].nfetch = 1 /\ th[t].sleep_left = 0
      /\ th[t].pc \in {"lock_stale", "stale"} => th[t].fails = 1
      /\ th[t].pc \in {"lock_put", "put"} => th[t].fails = 0
      /\ (th[t].pc \in {"done", "raised"} /\ th[t].seen # "fresh")
           => th[t].nfetch = 1
      /\ th[t].pc = "raised" => th[t].fails = 1

C23_Witness ==
  \E t \in Threads :
    /\ mod = "api" /\ th[t].pc = "raised"
    /\ th[t].seen = "absent"
    /\ th[t].nfetch = 1 /\ th[t].fails = 1

====
